---- MODULE Spec2Model ----
(***************************************************************************)
(* Model of the e-commerce order agent of anthef/AI-Agent.                 *)
(*                                                                         *)
(* The orchestration loop is task_1/agent.py ecommerce_agent: a chat with  *)
(* an external decision-maker (the LLM) whose responses carry parts that   *)
(* are function calls or text; each function call is dispatched to one of  *)
(* the five tools of task_1/tools.py and its result stored in tool_results.*)
(*                                                                         *)
(* Numbers.  Python computes with ints and floats.  The model keeps money  *)
(* in cents and weights in tenths of a kilogram, so that every value the   *)
(* tools produce on the inputs enumerated here is an exact integer.        *)
(* Python's None is the reserved string None.                              *)
(***************************************************************************)
EXTENDS Integers, Sequences, FiniteSets, TLC

VARIABLES pc, exit, max_iterations, iteration, response, parts, idx,
          has_function_call, tool_results, result, executed

\* a tool called by itself: the call and what it returned
VARIABLES call, ret

\* the locals of the fixed pipeline, src/agent.py ecommerce_agent
VARIABLES order_details, inventory_result, discount_result, shipping_result,
          payment_result, email_result

\* task_2 run_agent_with_logging: the events of the collector and final_text
VARIABLES logs, final_text

tool_vars == <<call, ret>>

pipeline_vars == <<order_details, inventory_result, discount_result,
                   shipping_result, payment_result, email_result>>

logging_vars == <<logs, final_text>>

vars == <<pc, exit, max_iterations, iteration, response, parts, idx,
          has_function_call, tool_results, result, executed,
          tool_vars, pipeline_vars, logging_vars>>

(***************************************************************************)
(* Bounds of the model.                                                    *)
(***************************************************************************)
\* max_iterations is drawn from 1..MaxTurns
MaxTurns == 2

\* quantities are drawn from 0..MaxQuantity and the values around a stock
MaxQuantity == 3

\* prices are drawn from 0..MaxPrice dollars and the values around 500
MaxPrice == 60

(***************************************************************************)
(* Python values.                                                          *)
(***************************************************************************)
None == "<None>"

Dollars(x) == x * 100

\* a Python dict as a function; d[k] = v
DictSet(d, k, v) == [x \in DOMAIN d \cup {k} |-> IF x = k THEN v ELSE d[x]]

EmptyDict == [x \in {} |-> None]

\* a Python str where the callee expects a dict: a value of another class,
\* told from a dict by the key __class__, which no dict of the program holds
Str(s) == [__class__ |-> "str", value |-> s]

\* hasattr(v, 'get'): v is a dict
IsDict(v) == "__class__" \notin DOMAIN v

(***************************************************************************)
(* task_1/tools.py                                                         *)
(***************************************************************************)
inventory ==
    [x \in {"LAPTOP-001", "MOUSE-002", "KEYBOARD-003", "MONITOR-004", "HEADSET-005"} |->
        CASE x = "LAPTOP-001"   -> [name |-> "Business Laptop", stock |-> 50, price |-> Dollars(1200)]
          [] x = "MOUSE-002"    -> [name |-> "Wireless Mouse", stock |-> 100, price |-> Dollars(25)]
          [] x = "KEYBOARD-003" -> [name |-> "Mechanical Keyboard", stock |-> 30, price |-> Dollars(80)]
          [] x = "MONITOR-004"  -> [name |-> "4K Monitor", stock |-> 20, price |-> Dollars(450)]
          [] x = "HEADSET-005"  -> [name |-> "Noise Cancelling Headset", stock |-> 15, price |-> Dollars(150)]]

\* check_inventory with the test stock > quantity
check_inventory_strict(product_id, quantity) ==
    IF product_id \notin DOMAIN inventory
    THEN [product_id |-> product_id, available |-> FALSE,
          reason |-> "Product not found", stock |-> 0]
    ELSE LET product == inventory[product_id]
             available == product.stock > quantity
         IN [product_id |-> product_id,
             product_name |-> product.name,
             available |-> available,
             requested_quantity |-> quantity,
             stock |-> product.stock,
             unit_price |-> product.price,
             total_price |-> IF available THEN product.price * quantity ELSE 0]

check_inventory(product_id, quantity) ==
    IF product_id \notin DOMAIN inventory
    THEN [product_id |-> product_id, available |-> FALSE,
          reason |-> "Product not found", stock |-> 0]
    ELSE LET product == inventory[product_id]
             available == product.stock >= quantity
         IN [product_id |-> product_id,
             product_name |-> product.name,
             available |-> available,
             requested_quantity |-> quantity,
             stock |-> product.stock,
             unit_price |-> product.price,
             total_price |-> IF available THEN product.price * quantity ELSE 0]

discounts ==
    [x \in {"WELCOME10", "SAVE50", "VIP20"} |->
        CASE x = "WELCOME10" -> [type |-> "percentage", value |-> 10,
                                 description |-> "10% off for new customers"]
          [] x = "SAVE50"    -> [type |-> "fixed", value |-> 50,
                                 description |-> "$50 off orders over $500"]
          [] x = "VIP20"     -> [type |-> "percentage", value |-> 20,
                                 description |-> "20% off for VIP members"]]

Min(a, b) == IF a <= b THEN a ELSE b

\* `not discount_code`: None and the empty string are falsy
Falsy(s) == s = None \/ s = ""

\* apply_discount without the min of line 122
apply_discount_uncapped(total_price, discount_code) ==
    IF Falsy(discount_code) \/ discount_code \notin DOMAIN discounts
    THEN [discount_applied |-> FALSE,
          discount_code |-> discount_code,
          original_price |-> total_price,
          discount_amount |-> 0,
          final_price |-> total_price]
    ELSE LET discount == discounts[discount_code]
             discount_amount ==
                 IF discount.type = "percentage"
                 THEN (total_price * discount.value) \div 100
                 ELSE Dollars(discount.value)
         IN [discount_applied |-> TRUE,
             discount_code |-> discount_code,
             discount_description |-> discount.description,
             original_price |-> total_price,
             discount_amount |-> discount_amount,
             final_price |-> total_price - discount_amount]

apply_discount(total_price, discount_code) ==
    IF Falsy(discount_code) \/ discount_code \notin DOMAIN discounts
    THEN [discount_applied |-> FALSE,
          discount_code |-> discount_code,
          original_price |-> total_price,
          discount_amount |-> 0,
          final_price |-> total_price]
    ELSE LET discount == discounts[discount_code]
             discount_amount ==
                 IF discount.type = "percentage"
                 THEN (total_price * discount.value) \div 100
                 ELSE Min(Dollars(discount.value), total_price)
         IN [discount_applied |-> TRUE,
             discount_code |-> discount_code,
             discount_description |-> discount.description,
             original_price |-> total_price,
             discount_amount |-> discount_amount,
             final_price |-> total_price - discount_amount]

shipping_zones ==
    [x \in {"Jakarta", "Bandung", "Surabaya", "Bali", "Singapore"} |->
        CASE x = "Jakarta"   -> [base_cost |-> Dollars(10), per_kg |-> Dollars(2), delivery_days |-> 1]
          [] x = "Bandung"   -> [base_cost |-> Dollars(15), per_kg |-> Dollars(3), delivery_days |-> 2]
          [] x = "Surabaya"  -> [base_cost |-> Dollars(20), per_kg |-> Dollars(4), delivery_days |-> 3]
          [] x = "Bali"      -> [base_cost |-> Dollars(30), per_kg |-> Dollars(5), delivery_days |-> 4]
          [] x = "Singapore" -> [base_cost |-> Dollars(50), per_kg |-> Dollars(8), delivery_days |-> 5]]

\* calculate_shipping that leaves base_cost out of the cost
calculate_shipping_without_base(destination_city, total_weight_kg) ==
    IF destination_city \notin DOMAIN shipping_zones
    THEN [destination |-> destination_city, available |-> FALSE,
          reason |-> "Shipping not available to this location",
          shipping_cost |-> 0]
    ELSE LET zone == shipping_zones[destination_city]
             shipping_cost == (total_weight_kg * zone.per_kg) \div 10
         IN [destination |-> destination_city,
             available |-> TRUE,
             weight_kg |-> total_weight_kg,
             shipping_cost |-> shipping_cost,
             estimated_delivery_days |-> zone.delivery_days]

\* total_weight_kg is in tenths of a kilogram
calculate_shipping(destination_city, total_weight_kg) ==
    IF destination_city \notin DOMAIN shipping_zones
    THEN [destination |-> destination_city, available |-> FALSE,
          reason |-> "Shipping not available to this location",
          shipping_cost |-> 0]
    ELSE LET zone == shipping_zones[destination_city]
             shipping_cost == zone.base_cost + (total_weight_kg * zone.per_kg) \div 10
         IN [destination |-> destination_city,
             available |-> TRUE,
             weight_kg |-> total_weight_kg,
             shipping_cost |-> shipping_cost,
             estimated_delivery_days |-> zone.delivery_days]

valid_methods == {"credit_card", "bank_transfer", "ewallet"}

\* the outcomes of "TXN-" + random.choices(..., k=10) the model distinguishes
TransactionIds == {"TXN-AAAAAAAAAA", "TXN-Z9Z9Z9Z9Z9"}

\* what the random generator may yield in a call of the tool named n
Txns(n) == IF n = "process_payment" THEN TransactionIds ELSE {None}

\* txn is the value the random generator yields in this call
process_payment(amount, payment_method, txn) ==
    IF payment_method \notin valid_methods
    THEN [success |-> FALSE,
          payment_method |-> payment_method,
          reason |-> "Invalid payment method. Valid methods: credit_card, bank_transfer, ewallet",
          transaction_id |-> None]
    ELSE [success |-> TRUE,
          payment_method |-> payment_method,
          amount |-> amount,
          transaction_id |-> txn,
          status |-> "completed"]

\* order_summary.get(key, default)
DictGet(d, k, default) == IF k \in DOMAIN d THEN d[k] ELSE default

send_confirmation_email(customer_email, order_summary) ==
    [email_sent |-> TRUE,
     recipient |-> customer_email,
     subject |-> <<"Order Confirmation - ", DictGet(order_summary, "transaction_id", "N/A")>>,
     order_summary |-> order_summary,
     status |-> "delivered"]

(***************************************************************************)
(* task_1/agent.py: the registry and the keyword-argument dispatch         *)
(***************************************************************************)
TOOL_FUNCTIONS ==
    {"check_inventory", "apply_discount", "calculate_shipping",
     "process_payment", "send_confirmation_email"}

\* the parameters of each tool's Python signature without a default value
RequiredArgs(tool_name) ==
    CASE tool_name = "check_inventory"         -> {"product_id", "quantity"}
      [] tool_name = "apply_discount"          -> {"total_price"}
      [] tool_name = "calculate_shipping"      -> {"destination_city", "total_weight_kg"}
      [] tool_name = "process_payment"         -> {"amount", "payment_method"}
      [] tool_name = "send_confirmation_email" -> {"customer_email", "order_summary"}

\* all the parameters of each tool's Python signature
AllowedArgs(tool_name) ==
    IF tool_name = "apply_discount"
    THEN {"total_price", "discount_code"}
    ELSE RequiredArgs(tool_name)

\* the value of a successful call; txn is what the random generator yields
CallTool(tool_name, args, txn) ==
    CASE tool_name = "check_inventory" ->
            check_inventory(args.product_id, args.quantity)
      [] tool_name = "apply_discount" ->
            apply_discount(args.total_price, DictGet(args, "discount_code", None))
      [] tool_name = "calculate_shipping" ->
            calculate_shipping(args.destination_city, args.total_weight_kg)
      [] tool_name = "process_payment" ->
            process_payment(args.amount, args.payment_method, txn)
      [] tool_name = "send_confirmation_email" ->
            send_confirmation_email(args.customer_email, args.order_summary)

\* the exception the body of the tool raises on these arguments, <<>> if none:
\* tools.py line 241 calls order_summary.get, which a str does not have
ToolException(tool_name, args) ==
    IF tool_name = "send_confirmation_email" /\ ~IsDict(args.order_summary)
    THEN <<"AttributeError", "'str' object has no attribute 'get'">>
    ELSE <<>>

\* the call through TOOL_FUNCTIONS[tool_name]: a KeyError for a name that is not
\* registered, a TypeError when the keywords do not fit the signature, or the
\* exception the body of the tool raises
Invoke(tool_name, args, txn) ==
    IF tool_name \notin TOOL_FUNCTIONS
    THEN [raised |-> TRUE, error |-> <<"KeyError", tool_name>>]
    ELSE IF ~(RequiredArgs(tool_name) \subseteq DOMAIN args)
    THEN [raised |-> TRUE, error |-> <<"TypeError", tool_name, "missing required argument">>]
    ELSE IF ~(DOMAIN args \subseteq AllowedArgs(tool_name))
    THEN [raised |-> TRUE, error |-> <<"TypeError", tool_name, "unexpected keyword argument">>]
    ELSE IF ToolException(tool_name, args) # <<>>
    THEN [raised |-> TRUE, error |-> ToolException(tool_name, args)]
    ELSE [raised |-> FALSE, value |-> CallTool(tool_name, args, txn)]

\* NormalizeArgs without the test for the empty string
NormalizeArgsClearsCode(tool_name, args) ==
    IF tool_name = "apply_discount"
    THEN DictSet(args, "discount_code", None)
    ELSE args

\* lines 187-188: an empty discount code becomes None
NormalizeArgs(tool_name, args) ==
    IF tool_name = "apply_discount" /\ DictGet(args, "discount_code", None) = ""
    THEN DictSet(args, "discount_code", None)
    ELSE args

\* result.get(flag): a missing key reads as None, which is falsy
Flag(res, flag) == flag \in DOMAIN res /\ res[flag]

(***************************************************************************)
(* The values ecommerce_agent returns.  A reason is the sequence of the    *)
(* fragments its f-string joins.                                           *)
(***************************************************************************)
NotReturned == [returned |-> FALSE]

Failure(reason, tr) == [success |-> FALSE, reason |-> reason, tools |-> tr]

Success(tr) == [success |-> TRUE, tools |-> tr]

required == <<"check_inventory", "process_payment", "send_confirmation_email">>

\* [t for t in required if t not in tool_results]
Missing(tr) == SelectSeq(required, LAMBDA t : t \notin DOMAIN tr)

\* FinalResult with send_confirmation_email left out of the required names
FinalResultForgetsEmail(tr) ==
    IF "check_inventory" \notin DOMAIN tr \/ "process_payment" \notin DOMAIN tr
    THEN Failure(<<"Incomplete: missing ">> \o Missing(tr), tr)
    ELSE Success(tr)

\* lines 247-252
FinalResult(tr) ==
    IF \E i \in 1..Len(required) : required[i] \notin DOMAIN tr
    THEN Failure(<<"Incomplete: missing ">> \o Missing(tr), tr)
    ELSE Success(tr)

\* DomainFailure without the test of line 201
DomainFailureSkipsInventory(tool_name, res) ==
    IF tool_name = "calculate_shipping" /\ ~Flag(res, "available")
    THEN <<"Shipping unavailable">>
    ELSE IF tool_name = "process_payment" /\ ~Flag(res, "success")
    THEN <<"Payment failed">>
    ELSE <<>>

\* DomainFailure without the test of line 205
DomainFailureSkipsShipping(tool_name, res) ==
    IF tool_name = "check_inventory" /\ ~Flag(res, "available")
    THEN <<"Product unavailable">>
    ELSE IF tool_name = "process_payment" /\ ~Flag(res, "success")
    THEN <<"Payment failed">>
    ELSE <<>>

\* DomainFailure without the test of line 209
DomainFailureSkipsPayment(tool_name, res) ==
    IF tool_name = "check_inventory" /\ ~Flag(res, "available")
    THEN <<"Product unavailable">>
    ELSE IF tool_name = "calculate_shipping" /\ ~Flag(res, "available")
    THEN <<"Shipping unavailable">>
    ELSE <<>>

\* lines 201-211: the reason of the early return a result causes, <<>> if none
DomainFailure(tool_name, res) ==
    IF tool_name = "check_inventory" /\ ~Flag(res, "available")
    THEN <<"Product unavailable">>
    ELSE IF tool_name = "calculate_shipping" /\ ~Flag(res, "available")
    THEN <<"Shipping unavailable">>
    ELSE IF tool_name = "process_payment" /\ ~Flag(res, "success")
    THEN <<"Payment failed">>
    ELSE <<>>

(***************************************************************************)
(* The decision-maker (chat.send_message): what it may answer.             *)
(***************************************************************************)
Call(name, args) == [function_call |-> [name |-> name, args |-> args]]

\* the function calls and texts the decision-maker puts in its responses
CheckLaptop ==
    Call("check_inventory", [product_id |-> "LAPTOP-001", quantity |-> 2])

\* more headsets than the stock holds
CheckHeadset ==
    Call("check_inventory", [product_id |-> "HEADSET-005", quantity |-> 16])

Discount ==
    Call("apply_discount", [total_price |-> Dollars(2400), discount_code |-> "WELCOME10"])

\* the empty string the prompt asks for when there is no code (line 148)
DiscountEmpty ==
    Call("apply_discount", [total_price |-> Dollars(2400), discount_code |-> ""])

\* a null code
DiscountNone ==
    Call("apply_discount", [total_price |-> Dollars(2400), discount_code |-> None])

ShipJakarta ==
    Call("calculate_shipping", [destination_city |-> "Jakarta", total_weight_kg |-> 50])

\* a city outside shipping_zones
ShipTokyo ==
    Call("calculate_shipping", [destination_city |-> "Tokyo", total_weight_kg |-> 50])

PayCard ==
    Call("process_payment", [amount |-> Dollars(2180), payment_method |-> "credit_card"])

\* a method outside valid_methods
PayCash ==
    Call("process_payment", [amount |-> Dollars(2180), payment_method |-> "cash"])

Email ==
    Call("send_confirmation_email",
         [customer_email |-> "john@example.com",
          order_summary |-> [total |-> Dollars(2180)]])

\* a tool the registry does not hold
Refund ==
    Call("refund_order", [order_id |-> "A-1"])

\* the discounted price without the shipping cost
PayNoShipping ==
    Call("process_payment", [amount |-> Dollars(2160), payment_method |-> "credit_card"])

\* a call without the required argument payment_method
PayNoMethod ==
    Call("process_payment", [amount |-> Dollars(2180)])

\* a call whose order_summary is a text, not an object
EmailTextSummary ==
    Call("send_confirmation_email",
         [customer_email |-> "john@example.com",
          order_summary |-> Str("2 laptops to Jakarta")])

FinalText == [text |-> "Your order is confirmed."]

\* a part with neither a function call nor a text
EmptyText == [text |-> ""]

DecisionParts ==
    {CheckLaptop, CheckHeadset, Discount, DiscountEmpty, DiscountNone,
     ShipJakarta, ShipTokyo,
     PayCard, PayCash, PayNoShipping, Email, Refund, PayNoMethod,
     EmailTextSummary,
     FinalText, EmptyText}

\* the parts of which every pair is a response
CoreParts == {CheckLaptop, ShipJakarta, PayCard, PayCash, Email, FinalText}

\* the responses of several parts
Batches ==
    {<<p, q>> : p, q \in CoreParts} \cup
    { <<CheckLaptop, ShipTokyo>>,
      <<CheckHeadset, PayCard>>,
      <<CheckLaptop, EmptyText>>,
      <<Refund, CheckLaptop>>,
      <<CheckLaptop, Discount, ShipJakarta>>,
      <<ShipJakarta, PayCard, Email>> }

\* the variable response before its first assignment
Unbound == [unbound |-> TRUE]

\* a response without candidates[0].content.parts
Unparseable == [valid |-> FALSE, parts |-> <<>>]

\* the payment the prompt asks for (line 150): the amount is the discounted
\* price plus the shipping cost of the results tr the decision-maker was sent
PayExact(tr) ==
    Call("process_payment",
         [amount |-> tr["apply_discount"].final_price
                        + tr["calculate_shipping"].shipping_cost,
          payment_method |-> "credit_card"])

\* the responses whose arguments are computed from the results sent so far
Computed(tr) ==
    IF {"apply_discount", "calculate_shipping"} \subseteq DOMAIN tr
    THEN {<<PayExact(tr)>>, <<PayExact(tr), Email>>}
    ELSE {}

\* what send_message may return to a decision-maker that was sent the results tr
Responses(tr) ==
    {Unparseable} \cup
    {[valid |-> TRUE, parts |-> ps] :
        ps \in {<<>>} \cup {<<p>> : p \in DecisionParts} \cup Batches
                \cup Computed(tr)}

\* the messages of the exceptions send_message raises
LlmErrors == {"429 quota exceeded"}

IsCall(part) == "function_call" \in DOMAIN part

IsText(part) == ~IsCall(part) /\ "text" \in DOMAIN part /\ part.text # ""

(***************************************************************************)
(* task_1/agent.py ecommerce_agent.  The position is pc: "start" before    *)
(* line 142, "for" before the body of the for loop runs on parts[idx],     *)
(* "done" after a return, "raised" when an exception left the function.    *)
(* exit names the statement through which control left the while loop and  *)
(* executed counts the tool calls that returned (line 194).                *)
(***************************************************************************)
\* no tool is called by itself
NotCalled == [called |-> FALSE]

ToolsIdle == call = NotCalled /\ ret = NotCalled

\* a local variable of run_agent_with_logging before its first assignment
UnboundLocal == "<unbound>"

\* the fixed pipeline is not running
PipelineIdle ==
    /\ order_details = Unbound
    /\ inventory_result = Unbound
    /\ discount_result = Unbound
    /\ shipping_result = Unbound
    /\ payment_result = Unbound
    /\ email_result = Unbound

\* run_agent_with_logging is not running
LoggingIdle == logs = <<>> /\ final_text = UnboundLocal

Init ==
    /\ pc = "start"
    /\ exit = "none"
    /\ max_iterations \in 1..MaxTurns
    /\ iteration = 0
    /\ response = Unbound
    /\ parts = <<>>
    /\ idx = 0
    /\ has_function_call = FALSE
    /\ tool_results = EmptyDict
    /\ result = NotReturned
    /\ executed = 0
    /\ ToolsIdle
    /\ PipelineIdle
    /\ LoggingIdle

\* Return that leaves the position where it was
ReturnKeepsRunning(res, how) ==
    /\ pc' = pc
    /\ exit' = how
    /\ result' = res

\* a return statement; how names the way that led to it
Return(res, how) ==
    /\ pc' = "done"
    /\ exit' = how
    /\ result' = res

\* LoopHead that spends every remaining turn on a response without parts
\* instead of leaving the loop at line 176
LoopHeadSkipsUnparseable(resp, tr, hfc) ==
    IF iteration < max_iterations
    THEN IF ~resp.valid
         THEN /\ iteration' = max_iterations
              /\ pc' = "done"
              /\ exit' = "while: max_iterations reached"
              /\ result' = FinalResult(tr)
              /\ has_function_call' = hfc
              /\ UNCHANGED <<parts, idx>>
         ELSE /\ iteration' = iteration + 1
              /\ parts' = resp.parts
              /\ has_function_call' = FALSE
              /\ IF resp.parts = <<>>
                 THEN /\ pc' = "done"
                      /\ exit' = "break: no function call"
                      /\ result' = FinalResult(tr)
                      /\ idx' = 0
                 ELSE /\ pc' = "for"
                      /\ idx' = 1
                      /\ UNCHANGED <<exit, result>>
    ELSE /\ pc' = "done"
         /\ exit' = "while: max_iterations reached"
         /\ result' = FinalResult(tr)
         /\ has_function_call' = hfc
         /\ UNCHANGED <<iteration, parts, idx>>

\* LoopHead with the loop test iteration <= max_iterations
LoopHeadOffByOne(resp, tr, hfc) ==
    IF iteration <= max_iterations
    THEN /\ iteration' = iteration + 1
         /\ IF ~resp.valid
            THEN /\ pc' = "done"
                 /\ exit' = "break: no valid response"
                 /\ result' = FinalResult(tr)
                 /\ has_function_call' = hfc
                 /\ UNCHANGED <<parts, idx>>
            ELSE /\ parts' = resp.parts
                 /\ has_function_call' = FALSE
                 /\ IF resp.parts = <<>>
                    THEN /\ pc' = "done"
                         /\ exit' = "break: no function call"
                         /\ result' = FinalResult(tr)
                         /\ idx' = 0
                    ELSE /\ pc' = "for"
                         /\ idx' = 1
                         /\ UNCHANGED <<exit, result>>
    ELSE /\ pc' = "done"
         /\ exit' = "while: max_iterations reached"
         /\ result' = FinalResult(tr)
         /\ has_function_call' = hfc
         /\ UNCHANGED <<iteration, parts, idx>>

\* lines 169-178: the loop test, the turn count, the parts of the response
LoopHead(resp, tr, hfc) ==
    IF iteration < max_iterations
    THEN /\ iteration' = iteration + 1
         /\ IF ~resp.valid
            THEN /\ Return(FinalResult(tr), "break: no valid response")
                 /\ has_function_call' = hfc
                 /\ UNCHANGED <<parts, idx>>
            ELSE /\ parts' = resp.parts
                 /\ has_function_call' = FALSE
                 /\ IF resp.parts = <<>>
                    THEN /\ Return(FinalResult(tr), "break: no function call")
                         /\ idx' = 0
                    ELSE /\ pc' = "for"
                         /\ idx' = 1
                         /\ UNCHANGED <<exit, result>>
    ELSE /\ Return(FinalResult(tr), "while: max_iterations reached")
         /\ has_function_call' = hfc
         /\ UNCHANGED <<iteration, parts, idx>>

\* AfterFor without the test of lines 239-240
AfterForIgnoresText(resp, tr, hfc) ==
    IF "send_confirmation_email" \in DOMAIN tr
    THEN /\ Return(FinalResult(tr), "break: confirmation sent")
         /\ has_function_call' = hfc
         /\ UNCHANGED <<iteration, parts, idx>>
    ELSE LoopHead(resp, tr, hfc)

\* lines 239-243, reached when the for loop ends or breaks, then the loop test
AfterFor(resp, tr, hfc) ==
    IF ~hfc
    THEN /\ Return(FinalResult(tr), "break: no function call")
         /\ has_function_call' = hfc
         /\ UNCHANGED <<iteration, parts, idx>>
    ELSE IF "send_confirmation_email" \in DOMAIN tr
    THEN /\ Return(FinalResult(tr), "break: confirmation sent")
         /\ has_function_call' = hfc
         /\ UNCHANGED <<iteration, parts, idx>>
    ELSE LoopHead(resp, tr, hfc)

\* NextPart that leaves the parts of the turn for those of the new response
NextPartFollowsResponse(resp, tr, hfc) == AfterFor(resp, tr, hfc)

\* the for loop takes the next part, or ends
NextPart(resp, tr, hfc) ==
    IF idx < Len(parts)
    THEN /\ idx' = idx + 1
         /\ has_function_call' = hfc
         /\ UNCHANGED <<pc, exit, result, iteration, parts>>
    ELSE AfterFor(resp, tr, hfc)

\* line 142: init_llm raises ValueError without GEMINI_API_KEY
InitLlmRaises ==
    /\ pc = "start"
    /\ pc' = "raised"
    /\ exit' = "raise: init_llm"
    /\ UNCHANGED <<max_iterations, iteration, response, parts, idx,
                   has_function_call, tool_results, result, executed>>
    /\ UNCHANGED <<tool_vars, pipeline_vars, logging_vars>>

\* lines 160-167: the opening send_message raises
FirstSendRaises ==
    /\ pc = "start"
    /\ \E e \in LlmErrors :
          Return(Failure(<<e>>, tool_results), "return: first send_message raised")
    /\ UNCHANGED <<max_iterations, iteration, response, parts, idx,
                   has_function_call, tool_results, executed>>
    /\ UNCHANGED <<tool_vars, pipeline_vars, logging_vars>>

\* lines 160-178: the opening send_message answers
StartChat ==
    /\ pc = "start"
    /\ \E r \in Responses(tool_results) :
          /\ response' = r
          /\ LoopHead(r, tool_results, has_function_call)
    /\ UNCHANGED <<max_iterations, tool_results, executed>>
    /\ UNCHANGED <<tool_vars, pipeline_vars, logging_vars>>

\* ToolRaises that passes on to the next part instead of returning
ToolRaisesCarriesOn ==
    /\ pc = "for"
    /\ IsCall(parts[idx])
    /\ LET fn == parts[idx].function_call
           args == NormalizeArgs(fn.name, fn.args)
       IN \E txn \in Txns(fn.name) :
             /\ Invoke(fn.name, args, txn).raised
             /\ NextPart(response, tool_results, TRUE)
    /\ UNCHANGED <<max_iterations, response, tool_results, executed>>
    /\ UNCHANGED <<tool_vars, pipeline_vars, logging_vars>>

\* lines 181-199: the call of the part raises
ToolRaises ==
    /\ pc = "for"
    /\ IsCall(parts[idx])
    /\ LET fn == parts[idx].function_call
           args == NormalizeArgs(fn.name, fn.args)
       IN \E txn \in Txns(fn.name) :
             LET inv == Invoke(fn.name, args, txn)
             IN /\ inv.raised
                /\ Return(Failure(<<"Tool error: ">> \o inv.error, tool_results),
                          "return: tool error")
    /\ has_function_call' = TRUE
    /\ UNCHANGED <<max_iterations, iteration, response, parts, idx,
                   tool_results, executed>>
    /\ UNCHANGED <<tool_vars, pipeline_vars, logging_vars>>

\* lines 181-211: the call of the part returns a failing result
ToolFails ==
    /\ pc = "for"
    /\ IsCall(parts[idx])
    /\ LET fn == parts[idx].function_call
           args == NormalizeArgs(fn.name, fn.args)
       IN \E txn \in Txns(fn.name) :
             LET inv == Invoke(fn.name, args, txn)
                 tr == DictSet(tool_results, fn.name, inv.value)
             IN /\ ~inv.raised
                /\ DomainFailure(fn.name, inv.value) # <<>>
                /\ tool_results' = tr
                /\ executed' = executed + 1
                /\ Return(Failure(DomainFailure(fn.name, inv.value), tr),
                          "return: failing result")
    /\ has_function_call' = TRUE
    /\ UNCHANGED <<max_iterations, iteration, response, parts, idx>>
    /\ UNCHANGED <<tool_vars, pipeline_vars, logging_vars>>

\* ToolThenSendRaises without the test of line 230
ToolThenSendRaisesAlwaysFails ==
    /\ pc = "for"
    /\ IsCall(parts[idx])
    /\ LET fn == parts[idx].function_call
           args == NormalizeArgs(fn.name, fn.args)
       IN \E txn \in Txns(fn.name), e \in LlmErrors :
             LET inv == Invoke(fn.name, args, txn)
                 tr == DictSet(tool_results, fn.name, inv.value)
             IN /\ ~inv.raised
                /\ DomainFailure(fn.name, inv.value) = <<>>
                /\ tool_results' = tr
                /\ executed' = executed + 1
                /\ Return(Failure(<<"LLM error: ", e>>, tr),
                          "return: send_message raised")
                /\ has_function_call' = TRUE
                /\ UNCHANGED <<iteration, parts, idx>>
    /\ UNCHANGED <<max_iterations, response>>
    /\ UNCHANGED <<tool_vars, pipeline_vars, logging_vars>>

\* lines 181-232: the call of the part succeeds, the send_message that
\* reports its result raises
ToolThenSendRaises ==
    /\ pc = "for"
    /\ IsCall(parts[idx])
    /\ LET fn == parts[idx].function_call
           args == NormalizeArgs(fn.name, fn.args)
       IN \E txn \in Txns(fn.name), e \in LlmErrors :
             LET inv == Invoke(fn.name, args, txn)
                 tr == DictSet(tool_results, fn.name, inv.value)
             IN /\ ~inv.raised
                /\ DomainFailure(fn.name, inv.value) = <<>>
                /\ tool_results' = tr
                /\ executed' = executed + 1
                /\ IF "send_confirmation_email" \in DOMAIN tr
                   THEN AfterFor(response, tr, TRUE)
                   ELSE /\ Return(Failure(<<"LLM error: ", e>>, tr),
                                  "return: send_message raised")
                        /\ has_function_call' = TRUE
                        /\ UNCHANGED <<iteration, parts, idx>>
    /\ UNCHANGED <<max_iterations, response>>
    /\ UNCHANGED <<tool_vars, pipeline_vars, logging_vars>>

\* lines 181-232 and on: the call of the part succeeds, the decision-maker
\* answers, the for loop goes on
ToolThenResponse ==
    /\ pc = "for"
    /\ IsCall(parts[idx])
    /\ LET fn == parts[idx].function_call
           args == NormalizeArgs(fn.name, fn.args)
       IN \E txn \in Txns(fn.name) :
             LET inv == Invoke(fn.name, args, txn)
                 tr == DictSet(tool_results, fn.name, inv.value)
             IN /\ ~inv.raised
                /\ DomainFailure(fn.name, inv.value) = <<>>
                /\ tool_results' = tr
                /\ executed' = executed + 1
                /\ \E r \in Responses(tr) :
                      /\ response' = r
                      /\ NextPart(r, tr, TRUE)
    /\ UNCHANGED max_iterations
    /\ UNCHANGED <<tool_vars, pipeline_vars, logging_vars>>

\* TextPart without the break of line 237
TextPartCarriesOn ==
    /\ pc = "for"
    /\ IsText(parts[idx])
    /\ NextPart(response, tool_results, FALSE)
    /\ UNCHANGED <<max_iterations, response, tool_results, executed>>
    /\ UNCHANGED <<tool_vars, pipeline_vars, logging_vars>>

\* lines 234-240: a text part ends the for loop, and the while loop with it
TextPart ==
    /\ pc = "for"
    /\ IsText(parts[idx])
    /\ AfterFor(response, tool_results, FALSE)
    /\ UNCHANGED <<max_iterations, response, tool_results, executed>>
    /\ UNCHANGED <<tool_vars, pipeline_vars, logging_vars>>

\* a part that is neither a function call nor a text: the for loop passes it
SkipPart ==
    /\ pc = "for"
    /\ ~IsCall(parts[idx])
    /\ ~IsText(parts[idx])
    /\ NextPart(response, tool_results, has_function_call)
    /\ UNCHANGED <<max_iterations, response, tool_results, executed>>
    /\ UNCHANGED <<tool_vars, pipeline_vars, logging_vars>>

Next ==
    \/ InitLlmRaises
    \/ FirstSendRaises
    \/ StartChat
    \/ ToolRaises
    \/ ToolFails
    \/ ToolThenSendRaises
    \/ ToolThenResponse
    \/ TextPart
    \/ SkipPart

Spec == Init /\ [][Next]_vars

(***************************************************************************)
(* What the claims read.                                                   *)
(***************************************************************************)
\* this step runs the tool named n to its return (line 194)
Executes(n) ==
    /\ pc = "for"
    /\ IsCall(parts[idx])
    /\ parts[idx].function_call.name = n
    /\ executed' = executed + 1

\* the record tr holds a result of the tool named n whose flag is true
Passed(tr, n, flag) == n \in DOMAIN tr /\ Flag(tr[n], flag)

\* the record tr holds a result of the tool named n whose flag is not true
Failed(tr, n, flag) == n \in DOMAIN tr /\ ~Flag(tr[n], flag)

\* the for loop is at the first part of the first response
FirstInvocation == pc = "for" /\ iteration = 1 /\ idx = 1 /\ IsCall(parts[idx])

\* the run has returned a failure with this reason
FailedWith(reason) ==
    /\ pc = "done"
    /\ result.success = FALSE
    /\ result.reason = reason

(***************************************************************************)
(* C1.  Whenever process_payment is executed, a check_inventory execution  *)
(* with available = true and a calculate_shipping execution with           *)
(* available = true occurred earlier in the same run.  While the run goes  *)
(* on, an earlier execution with a true flag is exactly a true-flagged     *)
(* entry of tool_results: a later execution of the same tool either        *)
(* replaces it by another true-flagged entry or ends the run.              *)
(***************************************************************************)
C1_PaymentAfterChecks ==
    [][Executes("process_payment") =>
          /\ Passed(tool_results, "check_inventory", "available")
          /\ Passed(tool_results, "calculate_shipping", "available")]_vars

(***************************************************************************)
(* C2.  send_confirmation_email is never executed unless a process_payment *)
(* execution with success = true occurred earlier in the same run.         *)
(***************************************************************************)
C2_EmailAfterPayment ==
    [][Executes("send_confirmation_email") =>
          Passed(tool_results, "process_payment", "success")]_vars

(***************************************************************************)
(* C3.  When the first invocation the decision-maker requests is           *)
(* process_payment, the run ends Failed with the reason "ordering          *)
(* violation: process_payment before its prerequisite", process_payment is *)
(* not executed and the record of executed operations is empty.            *)
(***************************************************************************)
C3_PaymentFirstIsRefused ==
    [][(FirstInvocation /\ parts[idx].function_call.name = "process_payment") =>
          /\ pc' = "done"
          /\ executed' = 0
          /\ tool_results' = EmptyDict
          /\ result'.success = FALSE
          /\ result'.reason =
                <<"ordering violation: process_payment before its prerequisite">>]_vars

(***************************************************************************)
(* C4.  A run of the loop ends with exactly one verdict, success = True or *)
(* success = False with a reason, and once the verdict is decided no       *)
(* operation is executed and no turn is taken: nothing changes any more.   *)
(***************************************************************************)
VerdictShape ==
    /\ pc \in {"start", "for", "done", "raised"}
    /\ (pc = "done") <=> (result # NotReturned)
    /\ pc = "done" =>
          \/ result.success = TRUE /\ DOMAIN result = {"success", "tools"}
          \/ /\ result.success = FALSE
             /\ DOMAIN result = {"success", "reason", "tools"}
             /\ result.reason # <<>>
    /\ pc \in {"start", "for"} => ENABLED Next

C4_OneVerdictThenNothing ==
    /\ []VerdictShape
    /\ [][result # NotReturned => UNCHANGED vars]_vars

\* a run has returned in its second turn with a part of the turn left over
C4_Witness ==
    /\ pc = "done"
    /\ executed >= 2
    /\ iteration = 2
    /\ result.success = FALSE
    /\ idx < Len(parts)

(***************************************************************************)
(* C5.  A failing check_inventory (available = false, e.g. more units than *)
(* the stock holds) ends the run at once with a failure whose record holds *)
(* the failing result; when it was the first invocation exactly one        *)
(* operation has executed.  The reason is "Product unavailable".           *)
(***************************************************************************)
InventoryFailureEndsRun(reason) ==
    Failed(tool_results, "check_inventory", "available") =>
        /\ FailedWith(reason)
        /\ result.tools = tool_results
        /\ (iteration = 1 /\ idx = 1) =>
              /\ executed = 1
              /\ DOMAIN result.tools = {"check_inventory"}

C5_InventoryFailure == InventoryFailureEndsRun(<<"Product unavailable">>)

\* C5 as the claim words it: the reason is "Product not available"
C5_Original == InventoryFailureEndsRun(<<"Product not available">>)

\* the first invocation asked for more headsets than the stock holds
C5_Witness ==
    /\ pc = "done"
    /\ iteration = 1
    /\ idx = 1
    /\ executed = 1
    /\ Failed(tool_results, "check_inventory", "available")
    /\ tool_results["check_inventory"].requested_quantity
          > tool_results["check_inventory"].stock

(***************************************************************************)
(* C6.  A failing calculate_shipping (a city outside the zones) ends the   *)
(* run at once with a failure whose record holds the failing result; when  *)
(* it follows a successful inventory check as the second operation, the    *)
(* record holds exactly these two operations and process_payment has not   *)
(* run.  The reason is "Shipping unavailable".                             *)
(***************************************************************************)
ShippingFailureEndsRun(reason) ==
    Failed(tool_results, "calculate_shipping", "available") =>
        /\ FailedWith(reason)
        /\ result.tools = tool_results
        /\ (executed = 2 /\ Passed(tool_results, "check_inventory", "available")) =>
              /\ DOMAIN result.tools = {"check_inventory", "calculate_shipping"}
              /\ "process_payment" \notin DOMAIN result.tools

C6_ShippingFailure == ShippingFailureEndsRun(<<"Shipping unavailable">>)

\* C6 as the claim words it: the reason is "Shipping not available"
C6_Original == ShippingFailureEndsRun(<<"Shipping not available">>)

\* a successful inventory check, then a city outside the zones
C6_Witness ==
    /\ pc = "done"
    /\ executed = 2
    /\ Passed(tool_results, "check_inventory", "available")
    /\ Failed(tool_results, "calculate_shipping", "available")
    /\ tool_results["calculate_shipping"].destination \notin DOMAIN shipping_zones

(***************************************************************************)
(* C7.  A failing process_payment (success = false) ends the run at once   *)
(* with Failed("Payment failed") and the failing result in the returned    *)
(* record; nothing runs afterwards, also not the parts that follow it in   *)
(* the same response.                                                      *)
(***************************************************************************)
PaymentFailed == Failed(tool_results, "process_payment", "success")

C7_PaymentFailure ==
    /\ [](PaymentFailed =>
            /\ FailedWith(<<"Payment failed">>)
            /\ result.tools = tool_results
            /\ exit = "return: failing result")
    /\ [][PaymentFailed => UNCHANGED vars]_vars

\* the payment failed and the confirmation requested after it did not run
C7_Witness ==
    /\ pc = "done"
    /\ PaymentFailed
    /\ idx < Len(parts)
    /\ parts[idx + 1] = Email
    /\ "send_confirmation_email" \notin DOMAIN tool_results

(***************************************************************************)
(* C8.  When the run reports success = True its record holds               *)
(* check_inventory with available = true, process_payment with             *)
(* success = true and send_confirmation_email.  When one of the three is   *)
(* absent the run is Failed, and when it came to the check of the required *)
(* names (no earlier return) its reason lists exactly the absent names in  *)
(* sorted order.                                                           *)
(***************************************************************************)
RequiredNames == {"check_inventory", "process_payment", "send_confirmation_email"}

Absent(tr) == RequiredNames \ DOMAIN tr

\* the place of a required name in alphabetical order
Rank(n) ==
    CASE n = "check_inventory" -> 1
      [] n = "process_payment" -> 2
      [] n = "send_confirmation_email" -> 3

\* reason is "Incomplete: missing" and exactly the names, sorted
ListsSorted(reason, names) ==
    /\ Len(reason) = 1 + Cardinality(names)
    /\ Head(reason) = "Incomplete: missing "
    /\ {reason[i] : i \in 2..Len(reason)} = names
    /\ \A i, j \in 2..Len(reason) : i < j => Rank(reason[i]) < Rank(reason[j])

\* the run left the loop and came to lines 247-252
ReachedFinalCheck ==
    /\ pc = "done"
    /\ exit \in {"break: no valid response", "break: no function call",
                 "break: confirmation sent", "while: max_iterations reached"}

UnparseableRun == response = Unparseable /\ executed = 0

C9_UnparseableEndsRun ==
    UnparseableRun =>
        /\ pc = "done"
        /\ iteration = 1
        /\ exit = "break: no valid response"
        /\ tool_results = EmptyDict
        /\ result = Failure(<<"Incomplete: missing ", "check_inventory",
                              "process_payment", "send_confirmation_email">>,
                            EmptyDict)

\* C9 as the claim words it: N turns, then Failed("turn limit exceeded")
C9_Original ==
    (pc = "done" /\ UnparseableRun) =>
        /\ iteration = max_iterations
        /\ executed = 0
        /\ FailedWith(<<"turn limit exceeded">>)

\* an unparseable answer under a turn bound of more than one turn
C9_Witness ==
    /\ pc = "done"
    /\ UnparseableRun
    /\ max_iterations > 1

(***************************************************************************)
(* C10.  The loop takes at most max_iterations turns, and a run that uses  *)
(* them all without a return or break ends Failed with the reason          *)
(* "Incomplete: missing" and the absent required names,                    *)
(* send_confirmation_email among them.                                     *)
(***************************************************************************)
TurnsUsedUp == exit = "while: max_iterations reached"

C10_TurnBound ==
    /\ iteration <= max_iterations
    /\ TurnsUsedUp =>
          /\ pc = "done"
          /\ iteration = max_iterations
          /\ ~result.success
          /\ "send_confirmation_email" \in Absent(result.tools)
          /\ ListsSorted(result.reason, Absent(result.tools))

\* C10 as the claim words it: the reason is "turn limit exceeded"
C10_Original ==
    /\ iteration <= max_iterations
    /\ TurnsUsedUp => FailedWith(<<"turn limit exceeded">>)

\* two turns of operations that never reach the confirmation
C10_Witness ==
    /\ TurnsUsedUp
    /\ max_iterations > 1
    /\ executed >= max_iterations

(***************************************************************************)
(* C11.  A response without usable parts that the loop reads at the head   *)
(* of a turn is terminal: the turn is counted, no part is taken from it,   *)
(* the loop is left at once and the run ends Failed with the reason        *)
(* "Incomplete: missing" and the absent required names, the confirmation   *)
(* among them; no further turn is taken and the run cannot succeed.        *)
(***************************************************************************)
\* this step counts a turn (line 170) and reads a response without parts
ReadsUnparseable == iteration' > iteration /\ response' = Unparseable

C11_UnparseableIsTerminal ==
    [][ReadsUnparseable =>
          /\ iteration' = iteration + 1
          /\ pc' = "done"
          /\ exit' = "break: no valid response"
          /\ UNCHANGED <<parts, idx>>
          /\ "send_confirmation_email" \notin DOMAIN tool_results'
          /\ result' = Failure(<<"Incomplete: missing ">> \o Missing(tool_results'),
                               tool_results')]_vars

\* C11 as the claim words it: with turns left the loop stays running
C11_Original ==
    [][(ReadsUnparseable /\ iteration' < max_iterations) =>
          result' = NotReturned]_vars

\* operations ran in the first turn, the second turn read an unparseable answer
C11_Witness ==
    /\ pc = "done"
    /\ exit = "break: no valid response"
    /\ response = Unparseable
    /\ iteration = 2
    /\ executed >= 1

(***************************************************************************)
(* C12.  A send_message that raises is not retried and ends the run with   *)
(* no further operation.  The opening call yields Failed with the message  *)
(* of the exception as reason and an empty record.  A call that feeds back *)
(* an operation result yields Failed("LLM error: <message>") with the      *)
(* record so far when send_confirmation_email is absent from the record;   *)
(* when it is present the loop is left and the check of the required names *)
(* decides the result, which is then success or "Incomplete: missing".     *)
(***************************************************************************)
C12_ServiceFailure ==
    [][/\ FirstSendRaises =>
            /\ pc' = "done"
            /\ executed' = 0
            /\ \E e \in LlmErrors : result' = Failure(<<e>>, EmptyDict)
       /\ ToolThenSendRaises =>
            /\ pc' = "done"
            /\ executed' = executed + 1
            /\ IF "send_confirmation_email" \in DOMAIN tool_results'
               THEN /\ result' = FinalResult(tool_results')
                    /\ exit' = "break: confirmation sent"
               ELSE \E e \in LlmErrors :
                       result' = Failure(<<"LLM error: ", e>>, tool_results')]_vars

\* C12 as the claim words it: every failing call of the decision service ends
\* the run Failed with a reason that carries the message of the exception
C12_Original ==
    [][(FirstSendRaises \/ ToolThenSendRaises) =>
          /\ pc' = "done"
          /\ result'.success = FALSE
          /\ \E e \in LlmErrors : result'.reason[Len(result'.reason)] = e]_vars

\* the decision service failed after two operations had run
C12_Witness ==
    /\ exit = "return: send_message raised"
    /\ executed >= 2
    /\ \E e \in LlmErrors : FailedWith(<<"LLM error: ", e>>)
    /\ result.tools = tool_results

(***************************************************************************)
(* C13.  When the part the for loop is at calls a name that is not         *)
(* registered, leaves out a required argument, or makes the tool raise,    *)
(* the run ends at once Failed with the reason "Tool error: " and the      *)
(* detail of the exception; the record and the count of executed calls are *)
(* as before, and the returned record is that record.                      *)
(***************************************************************************)
UnknownOperation ==
    /\ pc = "for"
    /\ IsCall(parts[idx])
    /\ parts[idx].function_call.name \notin TOOL_FUNCTIONS

MissingArgument ==
    /\ pc = "for"
    /\ IsCall(parts[idx])
    /\ parts[idx].function_call.name \in TOOL_FUNCTIONS
    /\ ~(RequiredArgs(parts[idx].function_call.name)
             \subseteq DOMAIN parts[idx].function_call.args)

OperationRaises ==
    /\ pc = "for"
    /\ IsCall(parts[idx])
    /\ parts[idx].function_call.name = "send_confirmation_email"
    /\ "order_summary" \in DOMAIN parts[idx].function_call.args
    /\ ~IsDict(parts[idx].function_call.args.order_summary)

C13_ToolErrorEndsRun ==
    [][(UnknownOperation \/ MissingArgument \/ OperationRaises) =>
          /\ pc' = "done"
          /\ UNCHANGED <<tool_results, executed, iteration, idx>>
          /\ result'.success = FALSE
          /\ Len(result'.reason) >= 3
          /\ Head(result'.reason) = "Tool error: "
          /\ result'.tools = tool_results]_vars

\* the second turn asked for a payment without its payment_method
C13_Witness ==
    /\ pc = "done"
    /\ exit = "return: tool error"
    /\ iteration = 2
    /\ executed >= 1
    /\ parts = <<PayNoMethod>>
    /\ result.reason = <<"Tool error: ", "TypeError", "process_payment",
                         "missing required argument">>
    /\ "process_payment" \notin DOMAIN result.tools

(***************************************************************************)
(* C14.  When the for loop comes to a text part the run ends at once and   *)
(* nothing is executed any more: the result is success when                *)
(* check_inventory, process_payment and send_confirmation_email are all in *)
(* the record, otherwise a failure whose reason is "Incomplete: missing"   *)
(* and the absent ones.                                                    *)
(***************************************************************************)
ReadsText == pc = "for" /\ IsText(parts[idx])

C14_FinalMessageEndsRun ==
    [][ReadsText =>
          /\ pc' = "done"
          /\ UNCHANGED <<tool_results, executed, iteration>>
          /\ result'.tools = tool_results
          /\ IF RequiredNames \subseteq DOMAIN tool_results
             THEN result'.success = TRUE
             ELSE /\ result'.success = FALSE
                  /\ ListsSorted(result'.reason, Absent(tool_results))]_vars

\* after one operation the decision-maker answered with a text alone
C14_Witness ==
    /\ pc = "done"
    /\ exit = "break: no function call"
    /\ parts = <<FinalText>>
    /\ iteration = 2
    /\ executed = 1
    /\ result.success = FALSE
    /\ Cardinality(Absent(result.tools)) = 2

(***************************************************************************)
(* C15.  When the loop is left because send_confirmation_email is in the   *)
(* record after the parts of a turn (line 242), the run is Succeeded.      *)
(***************************************************************************)
C15_ConfirmationMeansSuccess ==
    exit = "break: confirmation sent" => (pc = "done" /\ result.success)

(***************************************************************************)
(* C16.  The record of executed operations is append-only: every entry it  *)
(* holds is still there, with the same result, after every step.           *)
(***************************************************************************)
C16_RecordAppendOnly ==
    [][\A n \in DOMAIN tool_results :
          /\ n \in DOMAIN tool_results'
          /\ tool_results'[n] = tool_results[n]]_vars

(***************************************************************************)
(* C17.  Every failure the loop returns carries the results of all the     *)
(* operations that executed before it: the returned record is the record   *)
(* kept, and it holds one result for each executed call.                   *)
(***************************************************************************)
C17_FailureKeepsAllResults ==
    (pc = "done" /\ ~result.success) =>
        /\ result.tools = tool_results
        /\ Cardinality(DOMAIN result.tools) = executed

(***************************************************************************)
(* C18.  No exception leaves ecommerce_agent: a call ends by a return.     *)
(***************************************************************************)
C18_NoExceptionEscapes == pc # "raised"

(***************************************************************************)
(* C19.  Whenever process_payment is executed with results of              *)
(* apply_discount and calculate_shipping in the record, its amount is      *)
(* final_price plus shipping_cost of these results.                        *)
(***************************************************************************)
C19_AmountPropagation ==
    [][(/\ Executes("process_payment")
        /\ "apply_discount" \in DOMAIN tool_results
        /\ "calculate_shipping" \in DOMAIN tool_results) =>
          parts[idx].function_call.args.amount =
              tool_results["apply_discount"].final_price
                  + tool_results["calculate_shipping"].shipping_cost]_vars

(***************************************************************************)
(* C20.  Scenario A.  When the five operations have each executed once,    *)
(* for an item in stock, a percentage code applied to the price of the     *)
(* inventory check, a city of the zones, a valid payment method and the    *)
(* amount final_price + shipping_cost of the earlier results, and the loop *)
(* was left without an early return, the run is Succeeded with exactly the *)
(* five operations in its record, and the amount charged is                *)
(* (unit_price * quantity) * (1 - pct/100) + base_cost + weight * per_kg.  *)
(***************************************************************************)
FiveOperations == TOOL_FUNCTIONS

ScenarioA ==
    /\ ReachedFinalCheck
    /\ executed = 5
    /\ DOMAIN tool_results = FiveOperations
    /\ Flag(tool_results["check_inventory"], "available")
    /\ Flag(tool_results["apply_discount"], "discount_applied")
    /\ discounts[tool_results["apply_discount"].discount_code].type = "percentage"
    /\ tool_results["apply_discount"].original_price
          = tool_results["check_inventory"].total_price
    /\ Flag(tool_results["calculate_shipping"], "available")
    /\ Flag(tool_results["process_payment"], "success")
    /\ tool_results["process_payment"].amount
          = tool_results["apply_discount"].final_price
              + tool_results["calculate_shipping"].shipping_cost

\* the amount of the claim, from the tables of tools.py, in cents
ScenarioAmount(tr) ==
    LET item == inventory[tr["check_inventory"].product_id]
        quantity == tr["check_inventory"].requested_quantity
        pct == discounts[tr["apply_discount"].discount_code].value
        zone == shipping_zones[tr["calculate_shipping"].destination]
        weight == tr["calculate_shipping"].weight_kg
    IN (item.price * quantity * (100 - pct)) \div 100
          + zone.base_cost + (weight * zone.per_kg) \div 10

C20_ScenarioA ==
    ScenarioA =>
        /\ result = Success(tool_results)
        /\ DOMAIN result.tools = FiveOperations
        /\ result.tools["process_payment"].amount = ScenarioAmount(result.tools)

\* inventory, discount and shipping in the first turn, payment and
\* confirmation in the second
C20_Witness ==
    /\ ScenarioA
    /\ iteration = 2
    /\ parts = <<PayExact(tool_results), Email>>
    /\ result.success
    /\ result.tools["process_payment"].amount = Dollars(2180)

(***************************************************************************)
(* C21.  An apply_discount call whose discount_code is the empty string or *)
(* None is executed as no discount: discount_applied is false and          *)
(* final_price is the total_price of the call.  Every other argument of    *)
(* every executed call reaches the tool as the decision-maker gave it: the *)
(* fields of the result that repeat an argument hold that argument.        *)
(***************************************************************************)
\* the arguments of the part the for loop is at
PartArgs == parts[idx].function_call.args

\* the result recorded by this step repeats the arguments of the part
ArgumentsUnchanged(n, res) ==
    CASE n = "check_inventory" ->
            /\ res.product_id = PartArgs.product_id
            /\ res.requested_quantity = PartArgs.quantity
      [] n = "apply_discount" ->
            /\ res.original_price = PartArgs.total_price
            /\ ~Falsy(PartArgs.discount_code) =>
                  res.discount_code = PartArgs.discount_code
      [] n = "calculate_shipping" ->
            /\ res.destination = PartArgs.destination_city
            /\ res.available => res.weight_kg = PartArgs.total_weight_kg
      [] n = "process_payment" ->
            /\ res.payment_method = PartArgs.payment_method
            /\ res.success => res.amount = PartArgs.amount
      [] n = "send_confirmation_email" ->
            /\ res.recipient = PartArgs.customer_email
            /\ res.order_summary = PartArgs.order_summary

C21_ArgumentNormalisation ==
    [][\A n \in TOOL_FUNCTIONS :
          Executes(n) =>
             /\ ArgumentsUnchanged(n, tool_results'[n])
             /\ (n = "apply_discount" /\ Falsy(PartArgs.discount_code)) =>
                   /\ tool_results'[n].discount_applied = FALSE
                   /\ tool_results'[n].discount_amount = 0
                   /\ tool_results'[n].final_price = PartArgs.total_price
                   /\ tool_results'[n].discount_code = None]_vars

\* a call with the empty string as code ran as no discount
C21_Witness ==
    /\ pc = "done"
    /\ parts = <<DiscountEmpty>>
    /\ executed >= 1
    /\ "apply_discount" \in DOMAIN tool_results
    /\ tool_results["apply_discount"].discount_code = None
    /\ tool_results["apply_discount"].discount_applied = FALSE
    /\ tool_results["apply_discount"].final_price = Dollars(2400)

(***************************************************************************)
(* C22.  The tools are deterministic: a tool executed again with the       *)
(* arguments of its recorded execution returns the recorded result,        *)
(* transaction_id included.                                                *)
(***************************************************************************)
C22_ToolsDeterministic ==
    [][\A n \in TOOL_FUNCTIONS :
          (/\ Executes(n)
           /\ n \in DOMAIN tool_results
           /\ ArgumentsUnchanged(n, tool_results[n])) =>
              tool_results'[n] = tool_results[n]]_vars

(***************************************************************************)
(* C28.  A response with several function calls: the calls run in the      *)
(* listed order, each followed by one send_message, and the for loop stays *)
(* on the parts it started with; the answers to all calls but the last are *)
(* overwritten unread, and the turn after takes the parts of the answer to *)
(* the last call.                                                          *)
(***************************************************************************)
C28_BatchKeepsItsParts ==
    [][(pc = "for" /\ IsCall(parts[idx]) /\ pc' = "for") =>
          /\ executed' = executed + 1
          /\ response' \in Responses(tool_results')
          /\ IF idx < Len(parts)
             THEN /\ parts' = parts
                  /\ idx' = idx + 1
                  /\ iteration' = iteration
             ELSE /\ parts' = response'.parts
                  /\ idx' = 1
                  /\ iteration' = iteration + 1]_vars

\* the first call of a response of two ran and was answered with a request
\* for the confirmation, which the for loop does not take up
C28_Witness ==
    /\ pc = "for"
    /\ Len(parts) = 2
    /\ idx = 2
    /\ executed = 1
    /\ response.valid
    /\ response.parts = <<Email>>
    /\ parts[2] # Email

(***************************************************************************)
(* C29.  The first text part of a response ends the run: the parts after   *)
(* it are not taken up, the record stays as the calls before it left it,   *)
(* and the result is the one of the check of the required names.           *)
(***************************************************************************)
C29_TextEndsResponse ==
    [][(ReadsText /\ idx < Len(parts)) =>
          /\ pc' = "done"
          /\ exit' = "break: no function call"
          /\ UNCHANGED <<tool_results, executed, parts, idx, iteration, response>>
          /\ result' = FinalResult(tool_results)]_vars

\* a text followed by a call in the same response, after an operation ran
C29_Witness ==
    /\ pc = "done"
    /\ exit = "break: no function call"
    /\ Len(parts) = 2
    /\ idx = 1
    /\ IsText(parts[1])
    /\ IsCall(parts[2])
    /\ executed = 1
    /\ DOMAIN result.tools # {parts[2].function_call.name}

(***************************************************************************)
(* task_1/tools.py, each tool called by itself on arguments drawn from     *)
(* bounded sets.                                                           *)
(***************************************************************************)
Quantities == (0..MaxQuantity) \cup {15, 16}

ProductIds == DOMAIN inventory \cup {"TABLET-009"}

\* in cents
Prices == {Dollars(p) : p \in (0..MaxPrice) \cup {499, 500, 501, 2400}}

DiscountCodes == DOMAIN discounts \cup {None, "", "BOGUS"}

ToolCalls ==
    {[name |-> "check_inventory", args |-> [product_id |-> p, quantity |-> q]] :
        p \in ProductIds, q \in Quantities}
    \cup
    {[name |-> "apply_discount", args |-> [total_price |-> t, discount_code |-> c]] :
        t \in Prices, c \in DiscountCodes}
    \cup
    {[name |-> "apply_discount", args |-> [total_price |-> t]] : t \in Prices}

ToolsInit ==
    /\ call \in ToolCalls
    /\ ret = NotCalled
    /\ pc = "start"
    /\ exit = "none"
    /\ max_iterations = 1
    /\ iteration = 0
    /\ response = Unbound
    /\ parts = <<>>
    /\ idx = 0
    /\ has_function_call = FALSE
    /\ tool_results = EmptyDict
    /\ result = NotReturned
    /\ executed = 0
    /\ PipelineIdle
    /\ LoggingIdle

\* the tool runs and returns
ToolReturns ==
    /\ ret = NotCalled
    /\ \E txn \in Txns(call.name) : ret' = CallTool(call.name, call.args, txn)
    /\ UNCHANGED <<pc, exit, max_iterations, iteration, response, parts, idx,
                   has_function_call, tool_results, result, executed,
                   call, pipeline_vars, logging_vars>>

ToolsNext == ToolReturns

ToolsSpec == ToolsInit /\ [][ToolsNext]_vars

\* the tool named n has returned
Returned(n) == ret # NotCalled /\ call.name = n

(***************************************************************************)
(* C25.  apply_discount, for every total_price >= 0 and every code: a      *)
(* percentage code takes total_price * value / 100 off, a fixed code takes *)
(* min(value, total_price) off, an absent, empty or unknown code takes     *)
(* nothing off and reports discount_applied = false; final_price is        *)
(* total_price - discount_amount and lies between 0 and total_price.       *)
(***************************************************************************)
\* the code of the call, None when the argument is left out
CodeOf(c) == DictGet(c.args, "discount_code", None)

C26_Save50OnlyOver500 ==
    (Returned("apply_discount") /\ CodeOf(call) = "SAVE50") =>
        IF call.args.total_price > Dollars(500)
        THEN ret.discount_amount = Dollars(50)
        ELSE ret.discount_amount = 0

(***************************************************************************)
(* C27.  check_inventory returns available = true exactly when the product *)
(* is in the catalogue with a stock of at least the quantity; for a        *)
(* product of the catalogue total_price is unit_price * quantity when      *)
(* available and 0 when not; an unknown product returns available = false  *)
(* and stock 0, with the reason "Product not found" and no price.          *)
(***************************************************************************)
C27_InventoryCheck ==
    Returned("check_inventory") =>
        LET product_id == call.args.product_id
            quantity == call.args.quantity
        IN /\ ret.product_id = product_id
           /\ ret.available <=>
                 (product_id \in DOMAIN inventory
                     /\ inventory[product_id].stock >= quantity)
           /\ IF product_id \in DOMAIN inventory
              THEN /\ ret.stock = inventory[product_id].stock
                   /\ ret.unit_price = inventory[product_id].price
                   /\ ret.total_price =
                         IF ret.available THEN ret.unit_price * quantity ELSE 0
              ELSE /\ ret.stock = 0
                   /\ ret.reason = "Product not found"
                   /\ "total_price" \notin DOMAIN ret

\* as many headsets as the stock holds
C27_Witness ==
    /\ Returned("check_inventory")
    /\ call.args.product_id = "HEADSET-005"
    /\ call.args.quantity = inventory["HEADSET-005"].stock
    /\ ret.available
    /\ ret.total_price = Dollars(2250)

(***************************************************************************)
(* src/agent.py ecommerce_agent, the fixed pipeline.  pc is "start" before *)
(* line 52, "tool1" .. "tool5" before the call of the tool of that number, *)
(* "done" after a return, "raised" when an exception left the function.    *)
(***************************************************************************)
PipelineProducts == {"LAPTOP-001", "MOUSE-002", "HEADSET-005", "TABLET-009"}

PipelineCities == {"Jakarta", "Singapore", "Tokyo"}

PipelineCodes == {None, "WELCOME10", "SAVE50", "BOGUS"}

PipelineMethods == {"credit_card", "cash"}

\* what _extract_order_details may return
OrderDetails ==
    [product_id : PipelineProducts,
     quantity : Quantities,
     destination : PipelineCities,
     discount_code : PipelineCodes,
     payment_method : PipelineMethods,
     customer_email : {"john@example.com"}]

PipelineInit ==
    /\ pc = "start"
    /\ exit = "none"
    /\ max_iterations = 1
    /\ iteration = 0
    /\ response = Unbound
    /\ parts = <<>>
    /\ idx = 0
    /\ has_function_call = FALSE
    /\ tool_results = EmptyDict
    /\ result = NotReturned
    /\ executed = 0
    /\ ToolsIdle
    /\ PipelineIdle
    /\ LoggingIdle

\* what no step of the pipeline changes
PipelineFrame ==
    UNCHANGED <<max_iterations, iteration, response, parts, idx,
                has_function_call, tool_results, ret, logging_vars>>

\* lines 52-70: init_llm or call_llm raises outside a try block
PipelinePlanRaises ==
    /\ pc = "start"
    /\ pc' = "raised"
    /\ exit' = "raise: planning"
    /\ UNCHANGED <<result, executed, call, pipeline_vars>>
    /\ PipelineFrame

\* lines 52-78: the reasoning call and the extraction of the order
PipelineExtract ==
    /\ pc = "start"
    /\ order_details' \in OrderDetails
    /\ pc' = "tool1"
    /\ UNCHANGED <<exit, call, result, executed, inventory_result, discount_result,
                   shipping_result, payment_result, email_result>>
    /\ PipelineFrame

\* lines 83-93
PipelineCheckInventory ==
    /\ pc = "tool1"
    /\ LET r == check_inventory(order_details.product_id, order_details.quantity)
       IN /\ inventory_result' = r
          /\ IF ~r.available
             THEN /\ pc' = "done"
                  /\ result' = [success |-> FALSE,
                                 reason |-> "Product not available",
                                 inventory |-> r]
             ELSE /\ pc' = "tool2"
                  /\ UNCHANGED result
    /\ executed' = executed + 1
    /\ UNCHANGED <<exit, call, order_details, discount_result, shipping_result,
                   payment_result, email_result>>
    /\ PipelineFrame

\* lines 95-98
PipelineApplyDiscount ==
    /\ pc = "tool2"
    /\ discount_result' = apply_discount(inventory_result.total_price,
                                         order_details.discount_code)
    /\ pc' = "tool3"
    /\ executed' = executed + 1
    /\ UNCHANGED <<exit, call, result, order_details, inventory_result,
                   shipping_result, payment_result, email_result>>
    /\ PipelineFrame

\* line 103: quantity * 2.5 kg, in tenths of a kilogram
EstimatedWeight(quantity) == quantity * 25

\* PipelineCalculateShipping without the return of lines 107-112
PipelineCalculateShippingIgnoresAvailable ==
    /\ pc = "tool3"
    /\ shipping_result' = calculate_shipping(order_details.destination,
                                             EstimatedWeight(order_details.quantity))
    /\ pc' = "tool4"
    /\ executed' = executed + 1
    /\ UNCHANGED <<exit, call, result, order_details, inventory_result,
                   discount_result, payment_result, email_result>>
    /\ PipelineFrame

\* lines 100-112
PipelineCalculateShipping ==
    /\ pc = "tool3"
    /\ LET r == calculate_shipping(order_details.destination,
                                   EstimatedWeight(order_details.quantity))
       IN /\ shipping_result' = r
          /\ IF ~r.available
             THEN /\ pc' = "done"
                  /\ result' = [success |-> FALSE,
                                 reason |-> "Shipping not available",
                                 shipping |-> r]
             ELSE /\ pc' = "tool4"
                  /\ UNCHANGED result
    /\ executed' = executed + 1
    /\ UNCHANGED <<exit, call, order_details, inventory_result, discount_result,
                   payment_result, email_result>>
    /\ PipelineFrame

\* FinalTotal that forgets the shipping cost
FinalTotalWithoutShipping(d, sh) == d.final_price

\* line 115
FinalTotal(d, sh) == d.final_price + sh.shipping_cost

\* lines 114-127
PipelineProcessPayment ==
    /\ pc = "tool4"
    /\ \E txn \in TransactionIds :
          LET r == process_payment(FinalTotal(discount_result, shipping_result),
                                   order_details.payment_method, txn)
          IN /\ call' = [name |-> "process_payment",
                        args |-> [amount |-> FinalTotal(discount_result, shipping_result),
                                  payment_method |-> order_details.payment_method]]
             /\ payment_result' = r
             /\ IF ~r.success
                THEN /\ pc' = "done"
                     /\ result' = [success |-> FALSE,
                                    reason |-> "Payment failed",
                                    payment |-> r]
                ELSE /\ pc' = "tool5"
                     /\ UNCHANGED result
    /\ executed' = executed + 1
    /\ UNCHANGED <<exit, order_details, inventory_result, discount_result,
                   shipping_result, email_result>>
    /\ PipelineFrame

\* lines 131-140
OrderSummary ==
    [transaction_id |-> payment_result.transaction_id,
     product |-> inventory_result.product_name,
     quantity |-> order_details.quantity,
     subtotal |-> inventory_result.total_price,
     discount |-> discount_result.discount_amount,
     shipping |-> shipping_result.shipping_cost,
     total |-> FinalTotal(discount_result, shipping_result),
     delivery_days |-> shipping_result.estimated_delivery_days]

\* lines 129-154
PipelineSendEmail ==
    /\ pc = "tool5"
    /\ LET r == send_confirmation_email(order_details.customer_email, OrderSummary)
       IN /\ email_result' = r
          /\ result' = [success |-> TRUE,
                         inventory |-> inventory_result,
                         discount |-> discount_result,
                         shipping |-> shipping_result,
                         payment |-> payment_result,
                         email |-> r,
                         order_summary |-> OrderSummary]
    /\ pc' = "done"
    /\ executed' = executed + 1
    /\ UNCHANGED <<exit, call, order_details, inventory_result, discount_result,
                   shipping_result, payment_result>>
    /\ PipelineFrame

PipelineNext ==
    \/ PipelinePlanRaises
    \/ PipelineExtract
    \/ PipelineCheckInventory
    \/ PipelineApplyDiscount
    \/ PipelineCalculateShipping
    \/ PipelineProcessPayment
    \/ PipelineSendEmail

PipelineSpec == PipelineInit /\ [][PipelineNext]_vars

(***************************************************************************)
(* task_2/solution_a_observe_container.py run_agent_with_logging.  The     *)
(* positions are those of the loop of task_1/agent.py; result holds the    *)
(* text the function returned and logs the events of the collector.        *)
(***************************************************************************)
\* how many tool calls the decision-maker asks for before it only answers
\* with texts
MaxLogged == 3

\* line 420
LoggedMaxIterations == 15

\* line 483
DefaultText == "Order processed successfully"

\* a text with white space around it
PaddedText == [text |-> "  Your order is confirmed.  "]

\* a text of white space only
BlankText == [text |-> "   "]

\* str.strip() on the texts of the decision-maker
Strip(text) ==
    CASE text = PaddedText.text -> "Your order is confirmed."
      [] text = BlankText.text -> ""
      [] OTHER -> text

\* StreamingLogCollector.log_planning, log_tool_call, log_final
PlanningEvent == [type |-> "planning", text |-> "plan"]

ToolCallEvent(name, args, output) ==
    [type |-> "tool_call", name |-> name, args |-> args, output |-> output]

FinalEvent(text) == [type |-> "final", text |-> text]

LoggedCalls ==
    {CheckLaptop, CheckHeadset, DiscountEmpty, ShipJakarta, PayCard, Email, Refund}

LoggedTexts == {FinalText, PaddedText, BlankText, EmptyText}

LoggedBatches ==
    { <<CheckLaptop, ShipJakarta>>,
      <<CheckHeadset, PayCard>>,
      <<PayCard, Email>>,
      <<CheckLaptop, FinalText>>,
      <<EmptyText, CheckLaptop>> }

\* what send_message may return after n tool calls
LoggedResponses(n) ==
    {Unparseable} \cup
    {[valid |-> TRUE, parts |-> ps] :
        ps \in {<<>>} \cup {<<p>> : p \in LoggedTexts}
                \cup (IF n < MaxLogged
                      THEN {<<p>> : p \in LoggedCalls} \cup LoggedBatches
                      ELSE {})}

LoggingInit ==
    /\ pc = "start"
    /\ exit = "none"
    /\ max_iterations = LoggedMaxIterations
    /\ iteration = 0
    /\ response = Unbound
    /\ parts = <<>>
    /\ idx = 0
    /\ has_function_call = FALSE
    /\ tool_results = EmptyDict
    /\ result = NotReturned
    /\ executed = 0
    /\ ToolsIdle
    /\ PipelineIdle
    /\ LoggingIdle

\* lines 482-486, reached with final_text ft and the events lg; reading
\* final_text before its first assignment raises UnboundLocalError
LoggedReturn(ft, lg) ==
    IF ft = UnboundLocal
    THEN /\ pc' = "raised"
         /\ exit' = "raise: UnboundLocalError"
         /\ final_text' = ft
         /\ logs' = lg
         /\ UNCHANGED result
    ELSE IF ft = ""
    THEN /\ final_text' = DefaultText
         /\ logs' = Append(lg, FinalEvent(DefaultText))
         /\ Return([text |-> DefaultText], "return: default text")
    ELSE /\ final_text' = ft
         /\ logs' = lg
         /\ Return([text |-> ft], "return: final text")

\* lines 428-437: the loop test and the head of the body
LoggedLoopHead(resp, hfc, ft, lg) ==
    IF iteration < max_iterations
    THEN /\ iteration' = iteration + 1
         /\ IF ~resp.valid
            THEN /\ LoggedReturn(ft, lg)
                 /\ has_function_call' = hfc
                 /\ UNCHANGED <<parts, idx>>
            ELSE /\ parts' = resp.parts
                 /\ has_function_call' = FALSE
                 /\ IF resp.parts = <<>>
                    THEN /\ LoggedReturn("", lg)
                         /\ idx' = 0
                    ELSE /\ pc' = "for"
                         /\ idx' = 1
                         /\ final_text' = ""
                         /\ logs' = lg
                         /\ UNCHANGED <<exit, result>>
    ELSE /\ LoggedReturn(ft, lg)
         /\ has_function_call' = hfc
         /\ UNCHANGED <<iteration, parts, idx>>

\* lines 474-480, then the loop test
LoggedAfterFor(resp, tr, hfc, ft, lg) ==
    IF ~hfc
    THEN /\ LoggedReturn(ft, IF ft # "" THEN Append(lg, FinalEvent(ft)) ELSE lg)
         /\ has_function_call' = hfc
         /\ UNCHANGED <<iteration, parts, idx>>
    ELSE IF "send_confirmation_email" \in DOMAIN tr
    THEN /\ LoggedReturn(ft, lg)
         /\ has_function_call' = hfc
         /\ UNCHANGED <<iteration, parts, idx>>
    ELSE LoggedLoopHead(resp, hfc, ft, lg)

\* the for loop takes the next part, or ends
LoggedNextPart(resp, tr, hfc, ft, lg) ==
    IF idx < Len(parts)
    THEN /\ idx' = idx + 1
         /\ has_function_call' = hfc
         /\ final_text' = ft
         /\ logs' = lg
         /\ UNCHANGED <<pc, exit, result, iteration, parts>>
    ELSE LoggedAfterFor(resp, tr, hfc, ft, lg)

\* what no step of run_agent_with_logging changes
LoggingFrame == UNCHANGED <<max_iterations, tool_vars, pipeline_vars>>

\* line 405: init_llm raises
LoggedInitLlmRaises ==
    /\ pc = "start"
    /\ pc' = "raised"
    /\ exit' = "raise: init_llm"
    /\ UNCHANGED <<iteration, response, parts, idx, has_function_call,
                   tool_results, result, executed, logging_vars>>
    /\ LoggingFrame

\* lines 405-426: the plan is logged, the opening send_message raises
LoggedFirstSendRaises ==
    /\ pc = "start"
    /\ logs' = Append(logs, PlanningEvent)
    /\ pc' = "raised"
    /\ exit' = "raise: first send_message"
    /\ UNCHANGED <<iteration, response, parts, idx, has_function_call,
                   tool_results, result, executed, final_text>>
    /\ LoggingFrame

\* lines 405-437: the plan is logged, the opening send_message answers
LoggedStartChat ==
    /\ pc = "start"
    /\ \E r \in LoggedResponses(executed) :
          /\ response' = r
          /\ LoggedLoopHead(r, has_function_call, final_text,
                            Append(logs, PlanningEvent))
    /\ UNCHANGED <<tool_results, executed>>
    /\ LoggingFrame

\* lines 440-450: the call of the part raises
LoggedToolRaises ==
    /\ pc = "for"
    /\ IsCall(parts[idx])
    /\ LET fn == parts[idx].function_call
           args == NormalizeArgs(fn.name, fn.args)
       IN \E txn \in Txns(fn.name) : Invoke(fn.name, args, txn).raised
    /\ has_function_call' = TRUE
    /\ pc' = "raised"
    /\ exit' = "raise: tool"
    /\ UNCHANGED <<iteration, response, parts, idx, tool_results, result,
                   executed, logging_vars>>
    /\ LoggingFrame

\* lines 440-467: the call returns and is logged, send_message raises
LoggedToolThenSendRaises ==
    /\ pc = "for"
    /\ IsCall(parts[idx])
    /\ LET fn == parts[idx].function_call
           args == NormalizeArgs(fn.name, fn.args)
       IN \E txn \in Txns(fn.name) :
             LET inv == Invoke(fn.name, args, txn)
             IN /\ ~inv.raised
                /\ tool_results' = DictSet(tool_results, fn.name, inv.value)
                /\ logs' = Append(logs, ToolCallEvent(fn.name, args, inv.value))
    /\ executed' = executed + 1
    /\ has_function_call' = TRUE
    /\ pc' = "raised"
    /\ exit' = "raise: send_message"
    /\ UNCHANGED <<iteration, response, parts, idx, result, final_text>>
    /\ LoggingFrame

\* lines 440-467 and on: the call returns and is logged, the decision-maker
\* answers, the for loop goes on
LoggedToolThenResponse ==
    /\ pc = "for"
    /\ IsCall(parts[idx])
    /\ LET fn == parts[idx].function_call
           args == NormalizeArgs(fn.name, fn.args)
       IN \E txn \in Txns(fn.name) :
             LET inv == Invoke(fn.name, args, txn)
                 tr == DictSet(tool_results, fn.name, inv.value)
                 lg == Append(logs, ToolCallEvent(fn.name, args, inv.value))
             IN /\ ~inv.raised
                /\ tool_results' = tr
                /\ \E r \in LoggedResponses(executed + 1) :
                      /\ response' = r
                      /\ LoggedNextPart(r, tr, TRUE, final_text, lg)
    /\ executed' = executed + 1
    /\ LoggingFrame

\* lines 469-477: a text part ends the for loop, and the while loop with it
LoggedTextPart ==
    /\ pc = "for"
    /\ IsText(parts[idx])
    /\ LoggedAfterFor(response, tool_results, FALSE, Strip(parts[idx].text), logs)
    /\ UNCHANGED <<response, tool_results, executed>>
    /\ LoggingFrame

\* a part that is neither a function call nor a text: the for loop passes it
LoggedSkipPart ==
    /\ pc = "for"
    /\ ~IsCall(parts[idx])
    /\ ~IsText(parts[idx])
    /\ LoggedNextPart(response, tool_results, has_function_call, final_text, logs)
    /\ UNCHANGED <<response, tool_results, executed>>
    /\ LoggingFrame

LoggingNext ==
    \/ LoggedInitLlmRaises
    \/ LoggedFirstSendRaises
    \/ LoggedStartChat
    \/ LoggedToolRaises
    \/ LoggedToolThenSendRaises
    \/ LoggedToolThenResponse
    \/ LoggedTextPart
    \/ LoggedSkipPart

LoggingSpec == LoggingInit /\ [][LoggingNext]_vars

\* the results the pipeline has bound so far, in the order of its steps
PipelineResults ==
    <<inventory_result, discount_result, shipping_result, payment_result, email_result>>

\* how many of the first n steps have bound their result
Bound(n) == Cardinality({i \in 1..n : PipelineResults[i] # Unbound})

(***************************************************************************)
(* C23.  The fixed pipeline runs check_inventory, apply_discount,          *)
(* calculate_shipping, process_payment, send_confirmation_email in that    *)
(* order, each at most once; process_payment runs only after               *)
(* check_inventory and calculate_shipping both returned available = true,  *)
(* send_confirmation_email only after process_payment returned             *)
(* success = true, and the result is success = True exactly when all five  *)
(* executed.                                                               *)
(***************************************************************************)
C23_PipelineOrder ==
    /\ \A i \in 1..5 : PipelineResults[i] # Unbound => Bound(i) = i
    /\ executed = Bound(5)
    /\ payment_result # Unbound =>
          Flag(inventory_result, "available") /\ Flag(shipping_result, "available")
    /\ email_result # Unbound => Flag(payment_result, "success")
    /\ pc = "done" => (result.success <=> executed = 5)

C23_Witness ==
    /\ pc = "done"
    /\ result.success
    /\ executed = 5
    /\ email_result.email_sent

(***************************************************************************)
(* C24.  In the fixed pipeline, for every order that reaches payment, the  *)
(* amount passed to process_payment is                                     *)
(* apply_discount(unit_price * quantity, code).final_price + base_cost +   *)
(* (quantity * 2.5) * per_kg of the destination zone, and the total of the *)
(* order_summary sent in the confirmation email is that charged amount.    *)
(***************************************************************************)
\* the amount the claim states for the order o
StatedAmount(o) ==
    LET product == inventory[o.product_id]
        zone == shipping_zones[o.destination]
    IN apply_discount(product.price * o.quantity, o.discount_code).final_price
       + zone.base_cost + (o.quantity * 25 * zone.per_kg) \div 10

C24_PipelineAmount ==
    /\ call # NotCalled =>
          /\ call.name = "process_payment"
          /\ call.args.amount = StatedAmount(order_details)
    /\ email_result # Unbound =>
          /\ email_result.order_summary.total = call.args.amount
          /\ email_result.order_summary.total = payment_result.amount

C24_Witness ==
    /\ pc = "done"
    /\ order_details.product_id = "LAPTOP-001"
    /\ order_details.quantity = 2
    /\ order_details.destination = "Singapore"
    /\ order_details.discount_code = "SAVE50"
    /\ call # NotCalled
    /\ call.args.amount = Dollars(2440)
    /\ email_result # Unbound
    /\ email_result.order_summary.total = Dollars(2440)

\* the events of one type, in the order they were logged
Events(type) == SelectSeq(logs, LAMBDA e : e.type = type)

\* no exception leaves run_agent_with_logging
LoggedRunReturns == pc # "raised"

\* one tool_call event per executed operation; a returned run has logged
\* exactly one final event, last, with the text it returns
LoggedEventsMatch ==
    /\ Len(Events("tool_call")) = executed
    /\ pc = "done" =>
          /\ Len(Events("final")) = 1
          /\ logs[Len(logs)] = FinalEvent(result.text)

\* no operation is executed after one whose result makes task_1
\* ecommerce_agent return (lines 201-211)
LoggedStopsOnFailure ==
    LET calls == Events("tool_call")
    IN \A i \in 1..(Len(calls) - 1) :
          DomainFailure(calls[i].name, calls[i].output) = <<>>

(***************************************************************************)
(* C30.  run_agent_with_logging executes, for the same responses of the    *)
(* decision-maker, the operations task_1 ecommerce_agent executes, and     *)
(* stops where that loop stops on a failing result, a tool error or an     *)
(* error of the decision service; it logs one tool_call event per executed *)
(* operation in execution order, and it always returns a final text with   *)
(* exactly one final event logged last.                                    *)
(***************************************************************************)
C30_LoggedRunRefinesAgent ==
    /\ LoggedRunReturns
    /\ LoggedEventsMatch
    /\ LoggedStopsOnFailure

====
